---- MODULE Spec2Model ----
(***************************************************************************)
(* Container lifecycle orchestration of src/docker/container.rs.           *)
(*                                                                         *)
(* One behaviour is one call of one operation of the file (the variable    *)
(* op), run by the orchestrator thread "main", together with the threads   *)
(* that the operation spawns or shares state with: the attach thread, the  *)
(* threads that call stop_docker_container_future, and the thread that     *)
(* supplies the container id of a DockerContainerIdFuture.  The container  *)
(* engine is modelled by what its calls answer: every engine call is       *)
(* issued in one step and returns, Ok or Err, in a later one; between the  *)
(* two the call is in progress (its entry of calls is "pending").          *)
(***************************************************************************)
EXTENDS Integers, Sequences, FiniteSets, TLC

VARIABLES
    op,                     \* the operation "main" runs
    clean_up,               \* DockerConfig.clean_up / docker_clean_up
    network_mode,           \* DockerConfig.network_mode
    pc,                     \* position of every thread
    calls,                  \* the engine calls issued so far, in order
    result,                 \* what the operation returned to its caller
    cstate,                 \* the container: created, running, exited
    script,                 \* the lines the container prints when it runs
    emitted,                \* how many of them it has printed
    conn,                   \* the attach connection: none, open, late
    stream,                 \* lines sent on the connection, not yet consumed
    verification,           \* the shared Arc<Mutex<Verification>>
    vlock,                  \* holder of the Verification mutex
    to_ret,                 \* local to_ret of start_verification_container
    listener,               \* typed result of the get_container_logs listener
    future,                 \* the shared DockerContainerIdFuture
    lock,                   \* holder of the DockerContainerIdFuture mutex
    requires_wait_to_stop,  \* local of stop_docker_container_future
    poll,                   \* local of stop_docker_container_future
    stop_calls,             \* calls of stop made so far, per thread
    entry_future,           \* the future as the call of stop found it (call, then first read)
    inspection,             \* what inspect_container answers
    options                 \* the Options handed to create_container

vars == <<op, clean_up, network_mode, pc, calls, result, cstate, script,
          emitted, conn, stream, verification, vlock, to_ret, listener,
          future, lock, requires_wait_to_stop, poll, stop_calls,
          entry_future, inspection, options>>

\* ------------------------------------------------------------------ bounds

\* Longest output of a container, in lines.
MaxLines == 2
\* Calls of stop_docker_container_future one thread makes.
MaxStopCalls == 2
\* Exposed ports of an inspected container.
MaxPorts == 2
\* Longest list of host mappings of one exposed port.
MaxMappings == 2

\* ----------------------------------------------------------------- threads

None == "None"

Main == "main"
AttachThread == "attach"
Registrar == "registrar"
Stoppers == {"stop1", "stop2"}
Threads == {Main, AttachThread, Registrar} \cup Stoppers

NetworkMode == {"Bridge", "Host"}

\* The operations of the file.
CreateOps == {"create_container", "create_benchmarker_container",
              "create_verifier_container", "create_database_verifier_container"}
StartToExitOps == {"start_benchmark_command_retrieval_container",
                   "start_benchmarker_container",
                   "start_verification_container",
                   "block_until_database_is_ready"}
Ops == CreateOps \cup StartToExitOps
       \cup {"get_port_bindings_for_container", "start_container",
             "stop_docker_container_future"}

\* ------------------------------------------------------------ engine calls

\* The id of the container an operation is handed.
Cid == "cid"

Issue(t, name, arg) ==
    calls' = Append(calls, [call |-> name, by |-> t, arg |-> arg, res |-> "pending"])

\* A thread blocks in an engine call from its issue to its return.
InCall(t) == \E i \in DOMAIN calls : calls[i].by = t /\ calls[i].res = "pending"

Return(t, r) ==
    calls' = [i \in DOMAIN calls |->
                IF calls[i].by = t /\ calls[i].res = "pending"
                THEN [calls[i] EXCEPT !.res = r] ELSE calls[i]]

Res(ok) == IF ok THEN "ok" ELSE "err"

Issued(name) == \E i \in DOMAIN calls : calls[i].call = name
IssuedBy(t, name) == \E i \in DOMAIN calls : calls[i].call = name /\ calls[i].by = t
Failed(name) == \E i \in DOMAIN calls : calls[i].call = name /\ calls[i].res = "err"
Count(name) == Cardinality({i \in DOMAIN calls : calls[i].call = name})
Index(name) == CHOOSE i \in DOMAIN calls : calls[i].call = name

\* ToolsetResult: Ok(value) or Err(error); from names the engine call whose
\* failure is passed through.
NoResult == [kind |-> "none"]
Ok(v) == [kind |-> "ok", value |-> v]
Err(e, from) == [kind |-> "err", error |-> e, from |-> from]
TransportError == "TransportError"

Goto(t, label) == pc' = [pc EXCEPT ![t] = label]

\* ------------------------------------------------------------- Verification

Verification0 == [warnings |-> <<>>, errors |-> <<>>]

LineKinds == {"warning", "error", "log"}

RECURSIVE SeqsUpTo(_, _)
SeqsUpTo(S, n) ==
    IF n = 0 THEN {<<>>}
    ELSE LET shorter == SeqsUpTo(S, n - 1)
         IN  shorter \cup {Append(s, x) : s \in {q \in shorter : Len(q) = n - 1}, x \in S}

Scripts == SeqsUpTo(LineKinds, MaxLines)

\* Verifier listener: a line matching the message protocol is decoded into a
\* warning or an error and appended to the shared record; any other line goes
\* to the log.  A line is its number in the container's output.
Verifier(v, n) ==
    CASE script[n] = "warning" -> [v EXCEPT !.warnings = Append(@, n)]
      [] script[n] = "error"   -> [v EXCEPT !.errors = Append(@, n)]
      [] OTHER                 -> v

\* ------------------------------------------------------------------ engine

\* The container runs once start has succeeded, prints its lines and exits.
\* A line reaches the attach connection only if the connection exists when
\* the line is printed.
container_emit ==
    /\ cstate = "running"
    /\ emitted < Len(script)
    /\ emitted' = emitted + 1
    /\ stream' = IF conn = "none" THEN stream ELSE Append(stream, emitted + 1)
    /\ UNCHANGED <<op, clean_up, network_mode, pc, calls, result, cstate, script,
                   conn, verification, vlock, to_ret, listener, future, lock,
                   requires_wait_to_stop, poll, stop_calls, entry_future,
                   inspection, options>>

container_exit ==
    /\ cstate = "running"
    /\ emitted = Len(script)
    /\ cstate' = "exited"
    /\ UNCHANGED <<op, clean_up, network_mode, pc, calls, result, script, emitted,
                   conn, stream, verification, vlock, to_ret, listener, future,
                   lock, requires_wait_to_stop, poll, stop_calls, entry_future,
                   inspection, options>>

\* ----------------------------------------------------------- attach thread

\* The body of the closure handed to thread::spawn: it calls
\* attach_to_container with the listener of the operation.
attach_to_container ==
    /\ pc[AttachThread] = "spawned"
    /\ Issue(AttachThread, "attach_to_container", Cid)
    /\ Goto(AttachThread, "attaching")
    /\ UNCHANGED <<op, clean_up, network_mode, result, cstate, script, emitted,
                   conn, stream, verification, vlock, to_ret, listener, future,
                   lock, requires_wait_to_stop, poll, stop_calls, entry_future,
                   inspection, options>>

\* The engine accepts the attach: the call has begun.  Attached before the
\* container started, the connection is closed when the container exits;
\* attached after, the engine keeps it open.
attach_begin ==
    /\ pc[AttachThread] = "attaching"
    /\ conn' = IF cstate = "created" THEN "open" ELSE "late"
    /\ Goto(AttachThread, "listening")
    /\ UNCHANGED <<op, clean_up, network_mode, calls, result, cstate, script,
                   emitted, stream, verification, vlock, to_ret, listener, future,
                   lock, requires_wait_to_stop, poll, stop_calls, entry_future,
                   inspection, options>>

\* attach_to_container(..).unwrap() on Err: the spawned thread panics.
attach_unwrap_err ==
    /\ pc[AttachThread] = "attaching"
    /\ Return(AttachThread, "err")
    /\ Goto(AttachThread, "panicked")
    /\ UNCHANGED <<op, clean_up, network_mode, result, cstate, script, emitted,
                   conn, stream, verification, vlock, to_ret, listener, future,
                   lock, requires_wait_to_stop, poll, stop_calls, entry_future,
                   inspection, options>>

\* The listener is pushed the next line of the stream.  Verifier appends to
\* the shared record under its lock; Application only relays the line.
listener_on_line ==
    /\ pc[AttachThread] = "listening"
    /\ stream # <<>>
    /\ stream' = Tail(stream)
    /\ IF op = "start_verification_container"
       THEN /\ vlock = None
            /\ verification' = Verifier(verification, Head(stream))
       ELSE verification' = verification
    /\ UNCHANGED <<op, clean_up, network_mode, pc, calls, result, cstate, script,
                   emitted, conn, vlock, to_ret, listener, future, lock,
                   requires_wait_to_stop, poll, stop_calls, entry_future,
                   inspection, options>>

\* The container exited and the stream is drained: the engine closes the
\* connection and attach_to_container returns Ok.
attach_close ==
    /\ pc[AttachThread] = "listening"
    /\ conn = "open"
    /\ cstate = "exited"
    /\ stream = <<>>
    /\ Return(AttachThread, "ok")
    /\ Goto(AttachThread, "closed")
    /\ UNCHANGED <<op, clean_up, network_mode, result, cstate, script, emitted,
                   conn, stream, verification, vlock, to_ret, listener, future,
                   lock, requires_wait_to_stop, poll, stop_calls, entry_future,
                   inspection, options>>

\* -------------------------------------------------- orchestrator: helpers

\* Frames: what a step of "main" in a start operation leaves alone.
MainFrame == UNCHANGED <<op, clean_up, network_mode, script, emitted, conn,
                         stream, verification, vlock, to_ret, listener, future,
                         lock, requires_wait_to_stop, poll, stop_calls,
                         entry_future, inspection, options>>

\* main issues an engine call on the container and moves on to await it.
MainCall(at, name, next) ==
    /\ pc[Main] = at
    /\ Issue(Main, name, Cid)
    /\ Goto(Main, next)
    /\ UNCHANGED <<result, cstate>>
    /\ MainFrame

\* `call(..)?`: on Err the operation returns the error at once.
MainTry(at, name, ok, next) ==
    /\ pc[Main] = at
    /\ Return(Main, Res(ok))
    /\ IF ok
       THEN /\ Goto(Main, next)
            /\ result' = result
       ELSE /\ Goto(Main, "returned")
            /\ result' = Err(TransportError, name)

\* dockurl::container::start_container(..)? : on Ok the container runs.
StartReturn(o, ok, next) ==
    /\ op = o
    /\ cstate = "created"
    /\ MainTry("start_ret", "start_container", ok, next)
    /\ cstate' = IF ok THEN "running" ELSE cstate
    /\ MainFrame

\* Faulty variant: the result of the wait is dropped, the operation goes on.
WaitReturn_unchecked(o, ok, next) ==
    /\ op = o
    /\ ok => cstate = "exited"
    /\ pc[Main] = "wait_ret"
    /\ Return(Main, Res(ok))
    /\ Goto(Main, next)
    /\ UNCHANGED <<result, cstate>>
    /\ MainFrame

\* wait_for_container_to_exit(..)? : Ok only once the container has exited.
WaitReturn(o, ok, next) ==
    /\ op = o
    /\ ok => cstate = "exited"
    /\ MainTry("wait_ret", "wait_for_container_to_exit", ok, next)
    /\ UNCHANGED cstate
    /\ MainFrame

\* if docker_config.clean_up { delete_container(..)?; }
DeleteReturn(o, ok, next) ==
    /\ op = o
    /\ MainTry("delete_ret", "delete_container", ok, next)
    /\ UNCHANGED cstate
    /\ MainFrame

\* The operation returns r.
Finish(o, at, r) ==
    /\ op = o
    /\ pc[Main] = at
    /\ result' = r
    /\ Goto(Main, "returned")
    /\ UNCHANGED <<calls, cstate>>
    /\ MainFrame

\* --------------------------------------------------------- start_container

start_container_spawn ==
    /\ op = "start_container"
    /\ pc[Main] = "entry"
    /\ pc' = [pc EXCEPT ![Main] = "start", ![AttachThread] = "spawned"]
    /\ UNCHANGED <<calls, result, cstate>>
    /\ MainFrame

start_container_start ==
    /\ op = "start_container"
    /\ MainCall("start", "start_container", "start_ret")

start_container_return ==
    \E ok \in BOOLEAN :
        /\ StartReturn("start_container", ok, "ok")

start_container_ok ==
    Finish("start_container", "ok", Ok("unit"))

\* ------------------------------------------- start_verification_container

start_verification_container_spawn ==
    /\ op = "start_verification_container"
    /\ pc[Main] = "entry"
    /\ pc' = [pc EXCEPT ![Main] = "start", ![AttachThread] = "spawned"]
    /\ UNCHANGED <<calls, result, cstate>>
    /\ MainFrame

start_verification_container_start ==
    /\ op = "start_verification_container"
    /\ MainCall("start", "start_container", "start_ret")

start_verification_container_started ==
    \E ok \in BOOLEAN :
        StartReturn("start_verification_container", ok, "wait")

start_verification_container_wait ==
    /\ op = "start_verification_container"
    /\ MainCall("wait", "wait_for_container_to_exit", "wait_ret")

start_verification_container_exited ==
    \E ok \in BOOLEAN :
        WaitReturn("start_verification_container", ok,
                   IF clean_up THEN "delete" ELSE "lock")

start_verification_container_delete ==
    /\ op = "start_verification_container"
    /\ MainCall("delete", "delete_container", "delete_ret")

start_verification_container_deleted ==
    \E ok \in BOOLEAN :
        DeleteReturn("start_verification_container", ok, "lock")

\* if let Ok(verification) = verification.lock() { to_ret = verification.clone(); }
start_verification_container_lock ==
    /\ op = "start_verification_container"
    /\ pc[Main] = "lock"
    /\ vlock = None
    /\ vlock' = Main
    /\ to_ret' = verification
    /\ Goto(Main, "unlock")
    /\ UNCHANGED <<op, clean_up, network_mode, calls, result, cstate, script,
                   emitted, conn, stream, verification, listener, future, lock,
                   requires_wait_to_stop, poll, stop_calls, entry_future,
                   inspection, options>>

\* The guard is dropped at the end of the if-let; Ok(to_ret).
start_verification_container_ok ==
    /\ op = "start_verification_container"
    /\ pc[Main] = "unlock"
    /\ vlock' = None
    /\ result' = Ok(to_ret)
    /\ Goto(Main, "returned")
    /\ UNCHANGED <<op, clean_up, network_mode, calls, cstate, script, emitted,
                   conn, stream, verification, to_ret, listener, future, lock,
                   requires_wait_to_stop, poll, stop_calls, entry_future,
                   inspection, options>>

\* ------------------------------ start_benchmark_command_retrieval_container

\* What the listener handed to get_container_logs holds once the logs have
\* been pushed through it: BenchmarkCommandListener.benchmark_commands is
\* Some only if the logs held the commands; Benchmarker holds the raw text.
LogsReturn(o, ok, held) ==
    /\ op = o
    /\ MainTry("logs_ret", "get_container_logs", ok,
               IF clean_up THEN "delete" ELSE "finish")
    /\ listener' = IF ok THEN held ELSE listener
    /\ UNCHANGED <<op, clean_up, network_mode, cstate, script, emitted, conn,
                   stream, verification, vlock, to_ret, future, lock,
                   requires_wait_to_stop, poll, stop_calls, entry_future,
                   inspection, options>>

retrieval_start ==
    /\ op = "start_benchmark_command_retrieval_container"
    /\ MainCall("entry", "start_container", "start_ret")

retrieval_started ==
    \E ok \in BOOLEAN :
        StartReturn("start_benchmark_command_retrieval_container", ok, "wait")

retrieval_wait ==
    /\ op = "start_benchmark_command_retrieval_container"
    /\ MainCall("wait", "wait_for_container_to_exit", "wait_ret")

retrieval_exited ==
    \E ok \in BOOLEAN :
        WaitReturn("start_benchmark_command_retrieval_container", ok, "logs")

retrieval_logs ==
    /\ op = "start_benchmark_command_retrieval_container"
    /\ MainCall("logs", "get_container_logs", "logs_ret")

retrieval_listened ==
    \E ok \in BOOLEAN, held \in {None, "commands"} :
        LogsReturn("start_benchmark_command_retrieval_container", ok, held)

retrieval_delete ==
    /\ op = "start_benchmark_command_retrieval_container"
    /\ MainCall("delete", "delete_container", "delete_ret")

retrieval_deleted ==
    \E ok \in BOOLEAN :
        DeleteReturn("start_benchmark_command_retrieval_container", ok, "finish")

\* Faulty variant: whatever the listener holds is returned as a success.
retrieval_finish_always_ok ==
    Finish("start_benchmark_command_retrieval_container", "finish",
           Ok(listener))

\* if let Some(commands) = listener.benchmark_commands { Ok } else { Err }
retrieval_finish ==
    Finish("start_benchmark_command_retrieval_container", "finish",
           IF listener # None THEN Ok(listener)
           ELSE Err("FailedBenchmarkCommandRetrievalError", None))

\* --------------------------------------------- start_benchmarker_container

benchmarker_start ==
    /\ op = "start_benchmarker_container"
    /\ MainCall("entry", "start_container", "start_ret")

benchmarker_started ==
    \E ok \in BOOLEAN : StartReturn("start_benchmarker_container", ok, "wait")

benchmarker_wait ==
    /\ op = "start_benchmarker_container"
    /\ MainCall("wait", "wait_for_container_to_exit", "wait_ret")

benchmarker_exited ==
    \E ok \in BOOLEAN : WaitReturn("start_benchmarker_container", ok, "logs")

benchmarker_logs ==
    /\ op = "start_benchmarker_container"
    /\ MainCall("logs", "get_container_logs", "logs_ret")

\* The accumulated text is well-formed wrk output or it is not.
benchmarker_listened ==
    \E ok \in BOOLEAN, held \in {"wrk_output", "malformed_output"} :
        LogsReturn("start_benchmarker_container", ok, held)

benchmarker_delete ==
    /\ op = "start_benchmarker_container"
    /\ MainCall("delete", "delete_container", "delete_ret")

benchmarker_deleted ==
    \E ok \in BOOLEAN : DeleteReturn("start_benchmarker_container", ok, "finish")

\* benchmarker.parse_wrk_output()
parse_wrk_output ==
    Finish("start_benchmarker_container", "finish",
           IF listener = "wrk_output" THEN Ok("BenchmarkResults")
           ELSE Err("BenchmarkOutputParseError", None))

\* ------------------------------------------- block_until_database_is_ready

database_start ==
    /\ op = "block_until_database_is_ready"
    /\ MainCall("entry", "start_container", "start_ret")

database_started ==
    \E ok \in BOOLEAN : StartReturn("block_until_database_is_ready", ok, "wait")

database_wait ==
    /\ op = "block_until_database_is_ready"
    /\ MainCall("wait", "wait_for_container_to_exit", "wait_ret")

database_exited ==
    \E ok \in BOOLEAN :
        WaitReturn("block_until_database_is_ready", ok,
                   IF clean_up THEN "delete" ELSE "finish")

database_delete ==
    /\ op = "block_until_database_is_ready"
    /\ MainCall("delete", "delete_container", "delete_ret")

database_deleted ==
    \E ok \in BOOLEAN : DeleteReturn("block_until_database_is_ready", ok, "finish")

database_ready ==
    Finish("block_until_database_is_ready", "finish", Ok("unit"))

\* ----------------------------------------- get_port_bindings_for_container

\* Strings that are parsed are sequences of characters.
KeyList == << <<"8", "0", "8", "0", "/", "t", "c", "p">>,
              <<"4", "4", "3">>,
              <<"5", "3", "/", "u", "d", "p">> >>
PortKeys == {KeyList[k] : k \in 1..MaxPorts}

HostPortList == <<"32768", "32769", "32770", "32771", "32772", "32773">>

\* Option<T> of a collection: Absent, or Some(x) holding x.
Absent == <<>>
Some(x) == <<x>>
Get(o) == o[1]

\* The host mappings the engine may report for the k-th key: none at all, or
\* a list of up to MaxMappings entries, each with its own host_port.
MappingLists(k) ==
    {Absent} \cup {Some([i \in 1..n |-> [host_port |-> HostPortList[k + i - 1]]]) :
                    n \in 0..MaxMappings}

KeyIndex(key) == CHOOSE k \in 1..MaxPorts : KeyList[k] = key

Inspections ==
    {[exposed_ports |-> e, ports |-> m] :
        e \in {Absent} \cup {Some(keys) : keys \in SUBSET PortKeys},
        m \in {f \in [PortKeys -> UNION {MappingLists(k) : k \in 1..MaxPorts}] :
                 \A key \in PortKeys : f[key] \in MappingLists(KeyIndex(key))}}

NoInspection == [exposed_ports |-> Absent, ports |-> [key \in PortKeys |-> Absent]]

\* Faulty variant: the key is not split, the protocol suffix stays.
split_nothing(str, c) == <<str>>

\* str::split(c).collect(): the pieces between the occurrences of c.
RECURSIVE split(_, _)
split(str, c) ==
    IF \A i \in DOMAIN str : str[i] # c THEN <<str>>
    ELSE LET at == CHOOSE i \in DOMAIN str :
                      str[i] = c /\ \A j \in 1..(i - 1) : str[j] # c
         IN  <<SubSeq(str, 1, at - 1)>> \o split(SubSeq(str, at + 1, Len(str)), c)

\* The orders in which HashMap::keys may yield the keys of a map.
KeyOrders(keys) ==
    {o \in [1..Cardinality(keys) -> keys] :
        \A i, j \in DOMAIN o : i # j => o[i] # o[j]}

\* The body of `for key in exposed_ports.keys()`, the keys yielded in order.
RECURSIVE for_key(_, _, _)
for_key(order, insp, mode) ==
    IF order = <<>> THEN Err("ContainerPortMappingInspectionError", None)
    ELSE LET key == Head(order)
             inner_port == split(key, "/")
         IN  IF mode = "Bridge"
             THEN IF /\ insp.ports[key] # Absent
                     /\ Len(Get(insp.ports[key])) >= 1
                     /\ Len(inner_port) >= 1
                  THEN Ok(<<Get(insp.ports[key])[1].host_port, inner_port[1]>>)
                  ELSE for_key(Tail(order), insp, mode)
             ELSE Ok(<<inner_port[1], inner_port[1]>>)

\* Faulty variant: missing metadata is not told apart from missing mappings.
port_bindings_one_error(insp, mode, order) ==
    IF insp.exposed_ports = Absent
    THEN Err("ContainerPortMappingInspectionError", None)
    ELSE for_key(order, insp, mode)

\* What the function answers once the inspection has succeeded.
port_bindings(insp, mode, order) ==
    IF insp.exposed_ports = Absent THEN Err("ExposePortError", None)
    ELSE for_key(order, insp, mode)

get_port_bindings_inspect ==
    /\ op = "get_port_bindings_for_container"
    /\ MainCall("entry", "inspect_container", "inspect_ret")

get_port_bindings_for_container ==
    \E ok \in BOOLEAN,
       order \in KeyOrders(IF inspection.exposed_ports = Absent THEN {}
                           ELSE Get(inspection.exposed_ports)) :
        /\ op = "get_port_bindings_for_container"
        /\ pc[Main] = "inspect_ret"
        /\ Return(Main, Res(ok))
        /\ result' = IF ok THEN port_bindings(inspection, network_mode, order)
                     ELSE Err(TransportError, "inspect_container")
        /\ Goto(Main, "returned")
        /\ UNCHANGED cstate
        /\ MainFrame

\* ---------------------------------------------------------------- creation

\* The host and networking configuration each creation operation builds.
HostDatabase == "database_host"
HostServer == "server_host"

\* Faulty variant: Host mode without the tfb-database mapping.
create_container_options_no_extra_host(mode, host_name) ==
    [hostname |-> host_name, tty |-> TRUE, privileged |-> TRUE,
     publish_all_ports |-> TRUE, network_mode |-> mode,
     alias |-> IF mode = "Bridge" THEN host_name ELSE None,
     extra_hosts |-> {}]

create_container_options(mode, host_name) ==
    [hostname |-> host_name, tty |-> TRUE, privileged |-> TRUE,
     publish_all_ports |-> TRUE, network_mode |-> mode,
     alias |-> IF mode = "Bridge" THEN host_name ELSE None,
     extra_hosts |-> IF mode = "Bridge" THEN {}
                     ELSE {<<"tfb-database", HostDatabase>>}]

create_benchmarker_container_options(mode) ==
    [hostname |-> None, tty |-> TRUE, privileged |-> FALSE,
     publish_all_ports |-> FALSE, network_mode |-> mode,
     alias |-> None,
     extra_hosts |-> IF mode = "Bridge" THEN {}
                     ELSE {<<"tfb-server", HostServer>>}]

create_verifier_container_options(mode) ==
    [hostname |-> None, tty |-> TRUE, privileged |-> FALSE,
     publish_all_ports |-> TRUE, network_mode |-> mode,
     alias |-> None,
     extra_hosts |-> IF mode = "Bridge" THEN {}
                     ELSE {<<"tfb-server", HostServer>>,
                           <<"tfb-database", HostDatabase>>}]

create_database_verifier_container_options(mode) ==
    [hostname |-> None, tty |-> TRUE, privileged |-> FALSE,
     publish_all_ports |-> TRUE, network_mode |-> mode,
     alias |-> None,
     extra_hosts |-> IF mode = "Bridge" THEN {}
                     ELSE {<<"tfb-server", HostServer>>,
                           <<"tfb-database", HostDatabase>>}]

NoOptions == [hostname |-> None, tty |-> FALSE, privileged |-> FALSE,
              publish_all_ports |-> FALSE, network_mode |-> None,
              alias |-> None, extra_hosts |-> {}]

\* Each creation operation builds its options and issues create_container.
Create(o, opts) ==
    /\ op = o
    /\ pc[Main] = "entry"
    /\ options' = opts
    /\ Issue(Main, "create_container", None)
    /\ Goto(Main, "create_ret")
    /\ UNCHANGED <<op, clean_up, network_mode, result, cstate, script, emitted,
                   conn, stream, verification, vlock, to_ret, listener, future,
                   lock, requires_wait_to_stop, poll, stop_calls, entry_future,
                   inspection>>

create_container ==
    Create("create_container", create_container_options(network_mode, "tfb-server"))

create_benchmarker_container ==
    Create("create_benchmarker_container",
           create_benchmarker_container_options(network_mode))

create_verifier_container ==
    Create("create_verifier_container",
           create_verifier_container_options(network_mode))

create_database_verifier_container ==
    Create("create_database_verifier_container",
           create_database_verifier_container_options(network_mode))

\* let container_id = dockurl::container::create_container(..)?; Ok(container_id)
create_return ==
    \E ok \in BOOLEAN :
        /\ op \in CreateOps
        /\ MainTry("create_ret", "create_container", ok, "created")
        /\ UNCHANGED cstate
        /\ MainFrame

create_ok ==
    /\ op \in CreateOps
    /\ pc[Main] = "created"
    /\ result' = Ok(Cid)
    /\ Goto(Main, "returned")
    /\ UNCHANGED <<calls, cstate>>
    /\ MainFrame

\* -------------------------------------------------- DockerContainerIdFuture

\* poll(): ready once the container id is known, or once it is settled that
\* no stop has to wait for one; pending otherwise.
poll_future(f) ==
    IF f.container_id # None \/ ~f.requires_wait_to_stop THEN "Ready" ELSE "Pending"

\* unregister(): the id is cleared and the future leaves the registered state.
unregister(f) == [f EXCEPT !.container_id = None, !.requires_wait_to_stop = FALSE]

\* The thread that creates the container, under the lock of the future.
RegistrarFrame == UNCHANGED <<op, clean_up, network_mode, calls, result, cstate,
                              script, emitted, conn, stream, verification, vlock,
                              to_ret, listener, lock, requires_wait_to_stop, poll,
                              stop_calls, entry_future, inspection, options>>

\* A container is going to be created: stopping has to wait for its id.
registrar_requires_wait ==
    /\ op = "stop_docker_container_future"
    /\ pc[Registrar] = "idle"
    /\ lock = None
    /\ future' = [future EXCEPT !.requires_wait_to_stop = TRUE]
    /\ Goto(Registrar, "awaiting")
    /\ RegistrarFrame

\* The image the container is built from is recorded for later deletion.
registrar_image_id ==
    /\ pc[Registrar] = "awaiting"
    /\ lock = None
    /\ future.image_id = None
    /\ future' = [future EXCEPT !.image_id = "image"]
    /\ UNCHANGED pc
    /\ RegistrarFrame

\* The container was created: its id is supplied.
registrar_register ==
    /\ pc[Registrar] = "awaiting"
    /\ lock = None
    /\ future' = [future EXCEPT !.container_id = Cid]
    /\ Goto(Registrar, "done")
    /\ RegistrarFrame

\* The creation failed: no id will arrive.
registrar_no_container ==
    /\ pc[Registrar] = "awaiting"
    /\ lock = None
    /\ future' = [future EXCEPT !.requires_wait_to_stop = FALSE]
    /\ Goto(Registrar, "done")
    /\ RegistrarFrame

\* --------------------------------------------- stop_docker_container_future

StopFrame == UNCHANGED <<op, clean_up, network_mode, result, cstate, script,
                         emitted, conn, stream, verification, vlock, to_ret,
                         listener, inspection, options>>

\* A thread calls stop_docker_container_future on the shared future.
stop_call(s) ==
    /\ op = "stop_docker_container_future"
    /\ pc[s] \in {"idle", "returned"}
    /\ stop_calls[s] < MaxStopCalls
    /\ stop_calls' = [stop_calls EXCEPT ![s] = @ + 1]
    /\ requires_wait_to_stop' = [requires_wait_to_stop EXCEPT ![s] = FALSE]
    /\ entry_future' = [entry_future EXCEPT ![s] = future]
    /\ Goto(s, "entry")
    /\ UNCHANGED <<calls, future, lock, poll>>
    /\ StopFrame

\* Faulty variant: the `if requires_wait_to_stop` guard is missing, every call polls.
stop_requires_wait_unguarded(s) ==
    /\ pc[s] = "entry"
    /\ lock = None
    /\ requires_wait_to_stop' =
           [requires_wait_to_stop EXCEPT ![s] = future.requires_wait_to_stop]
    /\ entry_future' = [entry_future EXCEPT ![s] = future]
    /\ poll' = [poll EXCEPT ![s] = "Pending"]
    /\ Goto(s, "poll")
    /\ UNCHANGED <<calls, future, lock, stop_calls>>
    /\ StopFrame

\* Faulty variant: a call that needs no wait still clears the recorded image id.
stop_requires_wait_clears_image(s) ==
    /\ pc[s] = "entry"
    /\ lock = None
    /\ requires_wait_to_stop' =
           [requires_wait_to_stop EXCEPT ![s] = future.requires_wait_to_stop]
    /\ entry_future' = [entry_future EXCEPT ![s] = future]
    /\ poll' = [poll EXCEPT ![s] = "Pending"]
    /\ future' = IF future.requires_wait_to_stop THEN future
                 ELSE [future EXCEPT !.image_id = None]
    /\ Goto(s, IF future.requires_wait_to_stop THEN "poll" ELSE "returned")
    /\ UNCHANGED <<calls, lock, stop_calls>>
    /\ StopFrame

\* if let Ok(container) = container_id.lock() { requires_wait_to_stop = .. }
\* if requires_wait_to_stop { let mut poll = Poll::Pending; ..
stop_requires_wait(s) ==
    /\ pc[s] = "entry"
    /\ lock = None
    /\ requires_wait_to_stop' =
           [requires_wait_to_stop EXCEPT ![s] = future.requires_wait_to_stop]
    /\ entry_future' = [entry_future EXCEPT ![s] = future]
    /\ poll' = [poll EXCEPT ![s] = "Pending"]
    /\ Goto(s, IF future.requires_wait_to_stop THEN "poll" ELSE "returned")
    /\ UNCHANGED <<calls, future, lock, stop_calls>>
    /\ StopFrame

\* One turn of the loop up to the sleep: the lock is taken and the future
\* polled; when pending, the thread sleeps inside the if-let, its guard alive.
stop_poll(s) ==
    /\ pc[s] = "poll"
    /\ lock = None
    /\ poll' = [poll EXCEPT ![s] = poll_future(future)]
    /\ IF poll_future(future) = "Pending"
       THEN /\ lock' = s
            /\ Goto(s, "sleep")
       ELSE /\ lock' = None
            /\ Goto(s, "lock")
    /\ UNCHANGED <<calls, future, requires_wait_to_stop, stop_calls, entry_future>>
    /\ StopFrame

\* Faulty variant: the guard of the polling turn outlives the turn, so the next
\* turn locks a mutex its own thread still holds.
stop_sleep_keeps_guard(s) ==
    /\ pc[s] = "sleep"
    /\ lock = s
    /\ lock' = lock
    /\ Goto(s, "poll")
    /\ UNCHANGED <<calls, future, requires_wait_to_stop, poll, stop_calls,
                   entry_future>>
    /\ StopFrame

\* thread::sleep returns; the guard is dropped at the end of the if-let.
stop_sleep(s) ==
    /\ pc[s] = "sleep"
    /\ lock = s
    /\ lock' = None
    /\ Goto(s, "poll")
    /\ UNCHANGED <<calls, future, requires_wait_to_stop, poll, stop_calls,
                   entry_future>>
    /\ StopFrame

\* Faulty variant: the teardown is entered without taking the lock of the future.
stop_lock_not_taken(s) ==
    /\ pc[s] = "lock"
    /\ lock = None
    /\ lock' = lock
    /\ Goto(s, "container")
    /\ UNCHANGED <<calls, future, requires_wait_to_stop, poll, stop_calls,
                   entry_future>>
    /\ StopFrame

\* if let Ok(mut container) = container_id.lock() {
stop_lock(s) ==
    /\ pc[s] = "lock"
    /\ lock = None
    /\ lock' = s
    /\ Goto(s, "container")
    /\ UNCHANGED <<calls, future, requires_wait_to_stop, poll, stop_calls,
                   entry_future>>
    /\ StopFrame

\* Faulty variant: the kill is issued whether or not a container id is stored.
stop_kill_unconditional(s) ==
    /\ pc[s] = "container"
    /\ Issue(s, "kill_container", <<future.container_id, future.docker_host>>)
    /\ Goto(s, "kill_ret")
    /\ UNCHANGED <<future, lock, requires_wait_to_stop, poll, stop_calls,
                   entry_future>>
    /\ StopFrame

\* if let Some(container_id) = &container.container_id { kill_container(..)
stop_kill(s) ==
    /\ pc[s] = "container"
    /\ IF future.container_id # None
       THEN /\ Issue(s, "kill_container", <<future.container_id, future.docker_host>>)
            /\ Goto(s, "kill_ret")
       ELSE /\ calls' = calls
            /\ Goto(s, "image")
    /\ UNCHANGED <<future, lock, requires_wait_to_stop, poll, stop_calls,
                   entry_future>>
    /\ StopFrame

\* An engine call of the teardown returns; `.unwrap_or(..)` drops its error.
StopUnwrapOr(s, at, ok, next) ==
    /\ pc[s] = at
    /\ Return(s, Res(ok))
    /\ Goto(s, next)
    /\ UNCHANGED <<future, lock, requires_wait_to_stop, poll, stop_calls,
                   entry_future>>
    /\ StopFrame

StopIssue(s, at, name, arg, next) ==
    /\ pc[s] = at
    /\ Issue(s, name, arg)
    /\ Goto(s, next)
    /\ UNCHANGED <<future, lock, requires_wait_to_stop, poll, stop_calls,
                   entry_future>>
    /\ StopFrame

\* Faulty variant: a failed kill ends the teardown of the container (no delete, no
\* unregister), as an early exit on the error would.
stop_killed_or_give_up(s) ==
    \E ok \in BOOLEAN :
        StopUnwrapOr(s, "kill_ret", ok,
                     IF ~ok THEN "image"
                     ELSE IF clean_up THEN "delete" ELSE "unregister")

\* kill_container(..).unwrap_or(()); if docker_clean_up { delete_container(..)
stop_killed(s) ==
    \E ok \in BOOLEAN :
        StopUnwrapOr(s, "kill_ret", ok, IF clean_up THEN "delete" ELSE "unregister")

stop_delete(s) ==
    StopIssue(s, "delete", "delete_container",
              <<future.container_id, future.docker_host>>, "delete_ret")

stop_deleted(s) ==
    \E ok \in BOOLEAN : StopUnwrapOr(s, "delete_ret", ok, "unregister")

\* Faulty variant: the teardown of the container leaves the future as it is.
stop_unregister_skipped(s) ==
    /\ pc[s] = "unregister"
    /\ future' = future
    /\ Goto(s, "image")
    /\ UNCHANGED <<calls, lock, requires_wait_to_stop, poll, stop_calls,
                   entry_future>>
    /\ StopFrame

\* container.unregister();
stop_unregister(s) ==
    /\ pc[s] = "unregister"
    /\ future' = unregister(future)
    /\ Goto(s, "image")
    /\ UNCHANGED <<calls, lock, requires_wait_to_stop, poll, stop_calls,
                   entry_future>>
    /\ StopFrame

\* Faulty variant: a recorded image is deleted whether or not clean-up is enabled.
stop_delete_image_always(s) ==
    /\ pc[s] = "image"
    /\ IF future.image_id # None
       THEN /\ Issue(s, "delete_image", <<future.image_id, future.docker_host>>)
            /\ Goto(s, "image_ret")
       ELSE /\ calls' = calls
            /\ Goto(s, "clear")
    /\ UNCHANGED <<future, lock, requires_wait_to_stop, poll, stop_calls,
                   entry_future>>
    /\ StopFrame

\* if let Some(image_id) = &container.image_id { if docker_clean_up {
stop_delete_image(s) ==
    /\ pc[s] = "image"
    /\ IF future.image_id # None /\ clean_up
       THEN /\ Issue(s, "delete_image", <<future.image_id, future.docker_host>>)
            /\ Goto(s, "image_ret")
       ELSE /\ calls' = calls
            /\ Goto(s, "clear")
    /\ UNCHANGED <<future, lock, requires_wait_to_stop, poll, stop_calls,
                   entry_future>>
    /\ StopFrame

stop_image_deleted(s) ==
    \E ok \in BOOLEAN : StopUnwrapOr(s, "image_ret", ok, "unused")

stop_delete_unused_images(s) ==
    StopIssue(s, "unused", "delete_unused_images",
              <<"dangling", future.docker_host>>, "unused_ret")

stop_unused_images_deleted(s) ==
    \E ok \in BOOLEAN : StopUnwrapOr(s, "unused_ret", ok, "clear")

\* container.image_id = None; and the guard is dropped: the call returns.
stop_clear_image(s) ==
    /\ pc[s] = "clear"
    /\ lock = s
    /\ future' = [future EXCEPT !.image_id = None]
    /\ lock' = None
    /\ Goto(s, "returned")
    /\ UNCHANGED <<calls, requires_wait_to_stop, poll, stop_calls, entry_future>>
    /\ StopFrame

StopNext(s) ==
    \/ stop_call(s)
    \/ stop_requires_wait(s)
    \/ stop_poll(s)
    \/ stop_sleep(s)
    \/ stop_lock(s)
    \/ stop_kill(s)
    \/ stop_killed(s)
    \/ stop_delete(s)
    \/ stop_deleted(s)
    \/ stop_unregister(s)
    \/ stop_delete_image(s)
    \/ stop_image_deleted(s)
    \/ stop_delete_unused_images(s)
    \/ stop_unused_images_deleted(s)
    \/ stop_clear_image(s)

RegistrarNext ==
    \/ registrar_requires_wait
    \/ registrar_image_id
    \/ registrar_register
    \/ registrar_no_container

\* -------------------------------------------------------------------- Init

\* DockerContainerIdFuture::new: nothing registered, no wait required.
NewFuture == [requires_wait_to_stop |-> FALSE, container_id |-> None,
              image_id |-> None, docker_host |-> "docker_host"]

StreamingOps == {"start_container", "start_verification_container"}

Init ==
    /\ op \in Ops
    /\ clean_up \in IF op \in StartToExitOps \cup {"stop_docker_container_future"}
                    THEN BOOLEAN ELSE {FALSE}
    /\ network_mode \in IF op \in CreateOps \cup {"get_port_bindings_for_container"}
                        THEN NetworkMode ELSE {"Bridge"}
    /\ script \in IF op \in StreamingOps THEN Scripts ELSE {<<>>}
    /\ inspection \in IF op = "get_port_bindings_for_container"
                      THEN Inspections ELSE {NoInspection}
    /\ pc = [t \in Threads |-> IF t = Main THEN "entry" ELSE "idle"]
    /\ calls = <<>>
    /\ result = NoResult
    /\ cstate = "created"
    /\ emitted = 0
    /\ conn = "none"
    /\ stream = <<>>
    /\ verification = Verification0
    /\ vlock = None
    /\ to_ret = Verification0
    /\ listener = None
    /\ future = NewFuture
    /\ lock = None
    /\ requires_wait_to_stop = [s \in Stoppers |-> FALSE]
    /\ poll = [s \in Stoppers |-> "Pending"]
    /\ stop_calls = [s \in Stoppers |-> 0]
    /\ entry_future = [s \in Stoppers |-> NewFuture]
    /\ options = NoOptions

Next ==
    \/ container_emit
    \/ container_exit
    \/ attach_to_container
    \/ attach_begin
    \/ attach_unwrap_err
    \/ listener_on_line
    \/ attach_close
    \/ start_container_spawn
    \/ start_container_start
    \/ start_container_return
    \/ start_container_ok
    \/ start_verification_container_spawn
    \/ start_verification_container_start
    \/ start_verification_container_started
    \/ start_verification_container_wait
    \/ start_verification_container_exited
    \/ start_verification_container_delete
    \/ start_verification_container_deleted
    \/ start_verification_container_lock
    \/ start_verification_container_ok
    \/ retrieval_start
    \/ retrieval_started
    \/ retrieval_wait
    \/ retrieval_exited
    \/ retrieval_logs
    \/ retrieval_listened
    \/ retrieval_delete
    \/ retrieval_deleted
    \/ retrieval_finish
    \/ benchmarker_start
    \/ benchmarker_started
    \/ benchmarker_wait
    \/ benchmarker_exited
    \/ benchmarker_logs
    \/ benchmarker_listened
    \/ benchmarker_delete
    \/ benchmarker_deleted
    \/ parse_wrk_output
    \/ database_start
    \/ database_started
    \/ database_wait
    \/ database_exited
    \/ database_delete
    \/ database_deleted
    \/ database_ready
    \/ get_port_bindings_inspect
    \/ get_port_bindings_for_container
    \/ create_container
    \/ create_benchmarker_container
    \/ create_verifier_container
    \/ create_database_verifier_container
    \/ create_return
    \/ create_ok
    \/ RegistrarNext
    \/ \E s \in Stoppers : StopNext(s)

Spec == Init /\ [][Next]_vars

\* The stop future with the threads that share it, each thread scheduled
\* fairly.  std::sync::Mutex promises no order among the threads that wait
\* for it, so a thread is only sure to run when it can run continuously.
InitStop == Init /\ op = "stop_docker_container_future"

NextStop ==
    \/ RegistrarNext
    \/ \E s \in Stoppers : StopNext(s)

FairSpec ==
    /\ InitStop
    /\ [][NextStop]_vars
    /\ WF_vars(RegistrarNext)
    /\ \A s \in Stoppers : WF_vars(StopNext(s))

\* The steps of the orchestrator thread, of the spawned attach thread and of
\* the container with the engine's stream.
OrchestratorNext ==
    \/ start_container_spawn
    \/ start_container_start
    \/ start_container_return
    \/ start_container_ok
    \/ start_verification_container_spawn
    \/ start_verification_container_start
    \/ start_verification_container_started
    \/ start_verification_container_wait
    \/ start_verification_container_exited
    \/ start_verification_container_delete
    \/ start_verification_container_deleted
    \/ start_verification_container_lock
    \/ start_verification_container_ok
    \/ retrieval_start
    \/ retrieval_started
    \/ retrieval_wait
    \/ retrieval_exited
    \/ retrieval_logs
    \/ retrieval_listened
    \/ retrieval_delete
    \/ retrieval_deleted
    \/ retrieval_finish
    \/ benchmarker_start
    \/ benchmarker_started
    \/ benchmarker_wait
    \/ benchmarker_exited
    \/ benchmarker_logs
    \/ benchmarker_listened
    \/ benchmarker_delete
    \/ benchmarker_deleted
    \/ parse_wrk_output
    \/ database_start
    \/ database_started
    \/ database_wait
    \/ database_exited
    \/ database_delete
    \/ database_deleted
    \/ database_ready
    \/ get_port_bindings_inspect
    \/ get_port_bindings_for_container
    \/ create_container
    \/ create_benchmarker_container
    \/ create_verifier_container
    \/ create_database_verifier_container
    \/ create_return
    \/ create_ok

AttachNext ==
    \/ attach_to_container
    \/ attach_begin
    \/ attach_unwrap_err
    \/ listener_on_line
    \/ attach_close

ContainerNext ==
    \/ container_emit
    \/ container_exit

\* Every operation of the module, each thread scheduled fairly (a thread that
\* can run continuously does run; waiters on a Mutex get no precedence).
FairThreads ==
    /\ Init
    /\ [][Next]_vars
    /\ WF_vars(OrchestratorNext)
    /\ WF_vars(AttachNext)
    /\ WF_vars(ContainerNext)
    /\ WF_vars(RegistrarNext)
    /\ \A s \in Stoppers : WF_vars(StopNext(s))

\* ------------------------------------------------------------------ claims

\* C1: in start_container and start_verification_container, whenever the
\* original thread has issued start for the container, the attach call of the
\* spawned thread has already been issued and has begun (or has failed).
C1_AttachBeforeStart ==
    (op \in StreamingOps /\ Issued("start_container"))
        => pc[AttachThread] \in {"listening", "closed", "panicked"}

\* The tagged lines of the container's whole output, in emission order.
Tagged(kind) ==
    LET IsKind(n) == script[n] = kind
    IN  SelectSeq([n \in 1..Len(script) |-> n], IsKind)

\* C2: the Verification returned by start_verification_container holds every
\* protocol-tagged warning and every protocol-tagged error the container
\* printed before exiting, in emission order, and nothing else.
C2_SnapshotIsComplete ==
    (op = "start_verification_container" /\ result.kind = "ok")
        => result.value = [warnings |-> Tagged("warning"), errors |-> Tagged("error")]

\* C3: no thread holds the lock of the DockerContainerIdFuture or of the
\* Verification record while it has a blocking engine call in progress.
C3_NoLockAcrossEngineCall ==
    \A t \in Threads : (lock = t \/ vlock = t) => ~InCall(t)

TeardownCalls == {"kill_container", "delete_container", "delete_image",
                  "delete_unused_images"}

\* C4: a failing teardown call is never reported as a failure: no operation
\* returns an error that comes from kill, delete-container, delete-image or
\* the dangling-image sweep.
C4_TeardownFailureNotReported ==
    result.kind = "err" => result.from \notin TeardownCalls

FatalCalls == {"create_container", "start_container", "attach_to_container",
               "wait_for_container_to_exit", "inspect_container"}

\* C5: once an operation has returned, every create, start, attach, wait or
\* inspect call of it that failed has been surfaced as the error result of
\* the operation, and none of these calls was issued a second time.
C5_EngineFailureSurfaced ==
    /\ \A name \in FatalCalls : Count(name) <= 1
    /\ pc[Main] = "returned" =>
          \A name \in FatalCalls :
              Failed(name) => result.kind = "err"

\* The unregistered state of the future: no container id, no wait required.
Unregistered(f) == f.container_id = None /\ ~f.requires_wait_to_stop

\* C6: a call of stop that finds the future unregistered at its first lock
\* returns at once, issues no engine call and leaves the future unchanged; and
\* a call that went through the teardown leaves the future unregistered with no
\* image recorded, so that a second call in succession changes nothing.
C6_StopUnregisteredIsNoOp ==
    /\ [][\A s \in Stoppers :
            (pc[s] = "entry" /\ pc'[s] # "entry" /\ Unregistered(future))
                => (pc'[s] = "returned" /\ future' = future /\ calls' = calls)]_vars
    /\ [](\A s \in Stoppers :
            (pc[s] = "returned" /\ entry_future[s].requires_wait_to_stop)
                => (Unregistered(future) /\ future.image_id = None))

C6_Witness ==
    \E s \in Stoppers :
        /\ pc[s] = "returned"
        /\ stop_calls[s] = 2
        /\ IssuedBy(s, "kill_container")
        /\ Unregistered(entry_future[s])
        /\ Unregistered(future)

KillFailed(s) ==
    \E i \in DOMAIN calls :
        calls[i].by = s /\ calls[i].call = "kill_container" /\ calls[i].res = "err"

\* C7: when kill_container failed in a call of stop, the call still issued
\* delete_container (clean-up enabled), still cleared the container id and
\* returned.
C7_KillFailureDoesNotStopTeardown ==
    \A s \in Stoppers :
        (pc[s] = "returned" /\ KillFailed(s))
            => /\ clean_up => IssuedBy(s, "delete_container")
               /\ future.container_id = None

C7_Witness ==
    \E s \in Stoppers :
        /\ pc[s] = "returned"
        /\ KillFailed(s)
        /\ clean_up
        /\ IssuedBy(s, "delete_container")
        /\ future.container_id = None

\* C8: a call of stop whose requires_wait_to_stop is true, once in its polling
\* loop, eventually returns (the registrar keeps trying to take the lock).
C8_StopEventuallyReturns ==
    \A s \in Stoppers : (pc[s] = "poll") ~> (pc[s] = "returned")

\* The port of an exposed-port key: the key up to its first '/'.
StripProtocol(key) ==
    LET slashes == {i \in DOMAIN key : key[i] = "/"}
    IN  IF slashes = {} THEN key
        ELSE SubSeq(key, 1, (CHOOSE i \in slashes : \A j \in slashes : i <= j) - 1)

HasMapping(key) ==
    inspection.ports[key] # Absent /\ Len(Get(inspection.ports[key])) >= 1

Inspected ==
    /\ op = "get_port_bindings_for_container"
    /\ pc[Main] = "returned"
    /\ ~Failed("inspect_container")

\* C9: get_port_bindings_for_container returns (host_port, internal_port): in
\* Bridge mode (H, P) for an exposed key P/proto whose mapping list has first
\* entry H, in Host mode (P, P) for an exposed key P/proto; "8080/tcp" mapped
\* to "32768" gives ("32768", "8080") in Bridge and ("8080", "8080") in Host.
C9_PortBindings ==
    Inspected =>
      LET exposed == IF inspection.exposed_ports = Absent THEN {}
                     ELSE Get(inspection.exposed_ports)
          only8080 == exposed = {KeyList[1]}
      IN  /\ (network_mode = "Bridge" /\ result.kind = "ok") =>
                \E key \in exposed :
                    /\ HasMapping(key)
                    /\ result.value = <<Get(inspection.ports[key])[1].host_port,
                                        StripProtocol(key)>>
          /\ (network_mode = "Host" /\ result.kind = "ok") =>
                \E key \in exposed :
                    result.value = <<StripProtocol(key), StripProtocol(key)>>
          /\ (network_mode = "Bridge" /\ \E key \in exposed : HasMapping(key))
                => result.kind = "ok"
          /\ (network_mode = "Host" /\ exposed # {}) => result.kind = "ok"
          /\ (only8080 /\ network_mode = "Bridge" /\ HasMapping(KeyList[1]))
                => result.value = <<"32768", <<"8", "0", "8", "0">> >>
          /\ (only8080 /\ network_mode = "Host")
                => result.value = << <<"8", "0", "8", "0">>, <<"8", "0", "8", "0">> >>

C9_Witness ==
    /\ Inspected
    /\ network_mode = "Bridge"
    /\ inspection.exposed_ports # Absent
    /\ KeyList[1] \in Get(inspection.exposed_ports)
    /\ result.kind = "ok"
    /\ result.value = <<"32768", <<"8", "0", "8", "0">> >>

NoMappingAtAll ==
    /\ inspection.exposed_ports # Absent
    /\ \A key \in Get(inspection.exposed_ports) : ~HasMapping(key)

\* C10 as stated: in every networking mode the call fails with ExposePortError
\* when there is no exposed-ports metadata, and with
\* ContainerPortMappingInspectionError when exposed ports are present but no
\* exposed key has a host mapping.
C10_Original ==
    Inspected =>
      /\ inspection.exposed_ports = Absent
            => (result.kind = "err" /\ result.error = "ExposePortError")
      /\ NoMappingAtAll
            => (result.kind = "err"
                /\ result.error = "ContainerPortMappingInspectionError")

\* C10 amended: ExposePortError in every mode when there is no exposed-ports
\* metadata; ContainerPortMappingInspectionError when exposed ports are present
\* but no exposed key has a host mapping, in Bridge mode, and in Host mode only
\* when the exposed-ports map has no key at all: Host mode with an exposed key
\* succeeds without looking at the mappings.
C10_PortErrors ==
    Inspected =>
      /\ inspection.exposed_ports = Absent
            => (result.kind = "err" /\ result.error = "ExposePortError")
      /\ (NoMappingAtAll /\ (network_mode = "Bridge"
                             \/ Get(inspection.exposed_ports) = {}))
            => (result.kind = "err"
                /\ result.error = "ContainerPortMappingInspectionError")
      /\ (network_mode = "Host" /\ NoMappingAtAll
          /\ Get(inspection.exposed_ports) # {})
            => result.kind = "ok"

C10_Witness ==
    /\ Inspected
    /\ network_mode = "Bridge"
    /\ NoMappingAtAll
    /\ Get(inspection.exposed_ports) # {}
    /\ result.kind = "err"
    /\ result.error = "ContainerPortMappingInspectionError"

\* The options of the container whose creation has been requested.
Created == op \in CreateOps /\ Issued("create_container")

ExtraHostNames == {h[1] : h \in options.extra_hosts}

RequiredExtraHosts(o) ==
    CASE o = "create_container" -> {"tfb-database"}
      [] o = "create_benchmarker_container" -> {"tfb-server"}
      [] OTHER -> {"tfb-server", "tfb-database"}

\* C11 as stated: for each of the four creation operations, in Bridge mode the
\* network mode is Bridge, an endpoint alias is set and no extra_host is added;
\* in Host mode the network mode is Host, the role's extra_host entries are
\* present and no alias is set.
C11_Original ==
    Created =>
      /\ options.network_mode = network_mode
      /\ network_mode = "Bridge" =>
            (options.alias # None /\ options.extra_hosts = {})
      /\ network_mode = "Host" =>
            (options.alias = None /\ RequiredExtraHosts(op) \subseteq ExtraHostNames)

\* C11 amended: as stated, except that in Bridge mode only create_container
\* sets an endpoint alias (its host name); the benchmarker, the verifier and
\* the database verifier set no alias in either mode.  In Host mode the
\* extra_host entries are exactly the role's: tfb-database for the server,
\* tfb-server for the benchmarker, both for the two verifiers.
C11_ModeConsistentOptions ==
    Created =>
      /\ options.network_mode = network_mode
      /\ network_mode = "Bridge" =>
            /\ options.extra_hosts = {}
            /\ (options.alias # None) <=> (op = "create_container")
            /\ op = "create_container" => options.alias = options.hostname
      /\ network_mode = "Host" =>
            /\ options.alias = None
            /\ ExtraHostNames = RequiredExtraHosts(op)

C11_Witness ==
    /\ Created
    /\ op = "create_container"
    /\ network_mode = "Host"
    /\ options.extra_hosts = {<<"tfb-database", HostDatabase>>}
    /\ result.kind = "ok"

\* The engine calls the orchestrator thread issued, in order.
MainCalls ==
    LET ByMain(c) == c.by = Main
    IN  SelectSeq(calls, ByMain)

RetrievalOps == {"start_benchmark_command_retrieval_container",
                 "start_benchmarker_container"}

\* The calls a start-to-exit operation makes when none fails.
ExpectedCalls ==
    <<"start_container", "wait_for_container_to_exit">>
        \o (IF op \in RetrievalOps THEN <<"get_container_logs">> ELSE <<>>)
        \o (IF clean_up THEN <<"delete_container">> ELSE <<>>)

WaitSucceeded ==
    \E i \in DOMAIN calls :
        /\ calls[i].by = Main
        /\ calls[i].call = "wait_for_container_to_exit"
        /\ calls[i].res = "ok"

\* C12: in every start-to-exit operation the engine calls on the container are
\* issued in the order start, wait-for-exit, get_container_logs (retrieval
\* roles), delete (clean-up); each is issued only after every earlier one
\* succeeded; and the typed result (the fetched logs, the Verification
\* snapshot) is read only after wait-for-exit has returned successfully.
C12_StartToExitOrder ==
    op \in StartToExitOps =>
      /\ Len(MainCalls) <= Len(ExpectedCalls)
      /\ \A i \in DOMAIN MainCalls :
            /\ MainCalls[i].call = ExpectedCalls[i]
            /\ i > 1 => MainCalls[i - 1].res = "ok"
      /\ (listener # None \/ vlock = Main \/ result.kind = "ok") => WaitSucceeded

C12_Witness ==
    /\ op = "start_benchmark_command_retrieval_container"
    /\ clean_up
    /\ result.kind = "ok"
    /\ Len(MainCalls) = 4
    /\ \A i \in DOMAIN MainCalls : MainCalls[i].res = "ok"

\* Every engine call issued so far has returned successfully.
EveryCallSucceeded == \A i \in DOMAIN calls : calls[i].res = "ok"

\* C13: when every engine call succeeds, the command retrieval returns the
\* extracted BenchmarkCommands if and only if the log listener produced them
\* and fails with FailedBenchmarkCommandRetrievalError otherwise; either way
\* the clean-up delete (clean_up set) was issued before the operation returned.
C13_CommandsOrRetrievalError ==
    (/\ op = "start_benchmark_command_retrieval_container"
     /\ pc[Main] = "returned"
     /\ EveryCallSucceeded) =>
      /\ listener # None => result = Ok(listener)
      /\ listener = None =>
            result = Err("FailedBenchmarkCommandRetrievalError", None)
      /\ clean_up => Count("delete_container") = 1

C13_Witness ==
    /\ op = "start_benchmark_command_retrieval_container"
    /\ pc[Main] = "returned"
    /\ EveryCallSucceeded
    /\ clean_up
    /\ listener = None
    /\ result.kind = "err"
    /\ Issued("delete_container")

DeleteCalls == {"delete_container", "delete_image", "delete_unused_images"}

CallSucceeded(name) ==
    \E i \in DOMAIN calls : calls[i].call = name /\ calls[i].res = "ok"

\* Without clean_up no delete call of any kind is ever issued.
NoDeleteWithoutCleanUp ==
    ~clean_up => \A i \in DOMAIN calls : calls[i].call \notin DeleteCalls

\* C14: with clean_up false no delete_container, delete_image or
\* delete_unused_images call is issued by a start-to-exit operation or by
\* stop_docker_container_future (which still kills a registered container);
\* with clean_up true a start-to-exit operation whose start and wait succeeded
\* has issued exactly one delete_container when it returns.
C14_CleanUpPolicy ==
    /\ NoDeleteWithoutCleanUp
    /\ (/\ op \in StartToExitOps
        /\ clean_up
        /\ pc[Main] = "returned"
        /\ CallSucceeded("start_container")
        /\ CallSucceeded("wait_for_container_to_exit")) =>
          Count("delete_container") = 1

ContainerTeardown == {"kill_container", "delete_container"}

\* C15: stop_docker_container_future issues kill_container and delete_container
\* only for a known container id and only after poll() on the future reported
\* ready; while such a call is in flight its id and docker host are the ones
\* stored in the future.
C15_KillOnlyKnownContainer ==
    \A i \in DOMAIN calls :
        (calls[i].by \in Stoppers /\ calls[i].call \in ContainerTeardown) =>
          /\ calls[i].arg[1] # None
          /\ calls[i].res = "pending" =>
                /\ poll[calls[i].by] = "Ready"
                /\ future.container_id # None
                /\ calls[i].arg = <<future.container_id, future.docker_host>>

C15_Witness ==
    \E i \in DOMAIN calls :
        /\ calls[i].by \in Stoppers
        /\ calls[i].call = "delete_container"
        /\ calls[i].res = "pending"
        /\ calls[i].arg = <<Cid, future.docker_host>>
        /\ poll[calls[i].by] = "Ready"

\* C16: in the polling loop of stop_docker_container_future, whenever poll()
\* returned pending the future's lock is released before the one-second sleep
\* begins: during every sleep the lock is free for the thread that will supply
\* the container id.
C16_LockFreeDuringSleep ==
    \A s \in Stoppers : pc[s] = "sleep" => lock = None

\* The places where a thread is about to lock the future.
FutureLockPoints == {"entry", "poll", "lock"}

\* No thread is about to lock a mutex it holds itself.
NoReentry ==
    /\ \A s \in Stoppers : pc[s] \in FutureLockPoints => lock # s
    /\ pc[Main] = "lock" => vlock # Main

Registered(f) == f.container_id # None /\ f.requires_wait_to_stop

KillIssuedFor(id) ==
    \E i \in DOMAIN calls :
        /\ calls[i].by \in Stoppers
        /\ calls[i].call = "kill_container"
        /\ calls[i].arg[1] = id

\* A step of a thread that runs stop_docker_container_future.
StopStep == \E s \in Stoppers : pc'[s] # pc[s]

\* C18: when stop_docker_container_future returns from a call that found the
\* future registered, the future is unregistered (container id cleared); the
\* id is cleared only after kill_container was issued for it; and no step of
\* stop takes an unregistered future back to registered or awaiting-id.
C18_StopUnregisters ==
    /\ [](\A s \in Stoppers :
            (pc[s] = "returned" /\ Registered(entry_future[s]))
                => Unregistered(future))
    /\ [][(future.container_id # None /\ future'.container_id = None)
                => KillIssuedFor(future.container_id)]_vars
    /\ [][(StopStep /\ Unregistered(future)) => Unregistered(future')]_vars

C18_Witness ==
    \E s \in Stoppers :
        /\ pc[s] = "returned"
        /\ Registered(entry_future[s])
        /\ KillIssuedFor(Cid)
        /\ future.container_id = None
        /\ stop_calls[s] = 1

\* The engine calls one stop thread issued, in order.
StopCalls(s) ==
    LET ByS(c) == c.by = s
    IN  SelectSeq(calls, ByS)

\* delete_image is directly followed by the sweep, the sweep directly preceded
\* by delete_image, and no kill or delete of the container comes after them.
ImageTeardownOrder(s) ==
    LET sc == StopCalls(s)
    IN  \A i \in DOMAIN sc :
          /\ sc[i].call = "delete_unused_images" =>
                (i > 1 /\ sc[i - 1].call = "delete_image")
          /\ sc[i].call = "delete_image" =>
                IF i < Len(sc)
                THEN sc[i + 1].call = "delete_unused_images"
                ELSE pc[s] \in {"image_ret", "unused"}
          /\ (sc[i].call \in ContainerTeardown /\ i > 1) =>
                sc[i - 1].call = "kill_container"

\* C19: in the teardown of stop_docker_container_future (requires_wait_to_stop
\* read true) delete_image followed by the sweep of dangling images is issued
\* if and only if an image id is recorded and clean-up is enabled, in that
\* order and after any kill/delete of the container, with or without a
\* container id; and when the call returns the recorded image id is cleared,
\* also when clean-up is disabled.
C19_ImageTeardown ==
    /\ [](\A s \in Stoppers : ImageTeardownOrder(s))
    /\ [][\A s \in Stoppers :
            (pc[s] = "image" /\ pc'[s] # "image") =>
              /\ (future.image_id # None /\ clean_up) =>
                    /\ calls' = Append(calls, [call |-> "delete_image", by |-> s,
                                               arg |-> <<future.image_id,
                                                         future.docker_host>>,
                                               res |-> "pending"])
              /\ ~(future.image_id # None /\ clean_up) =>
                    (calls' = calls /\ pc'[s] = "clear")]_vars
    /\ [](\A s \in Stoppers :
            (pc[s] = "returned" /\ entry_future[s].requires_wait_to_stop)
                => future.image_id = None)

\* An image was recorded and no container id ever arrived: the image is
\* deleted, the sweep follows, and the image id is cleared.
C19_Witness ==
    \E s \in Stoppers :
        /\ pc[s] = "returned"
        /\ entry_future[s].requires_wait_to_stop
        /\ clean_up
        /\ ~Issued("kill_container")
        /\ Len(StopCalls(s)) = 2
        /\ StopCalls(s)[1].call = "delete_image"
        /\ StopCalls(s)[2].call = "delete_unused_images"
        /\ future.image_id = None

\* C20: a call of stop_docker_container_future that reads requires_wait_to_stop
\* false at its first lock returns without polling, issues no engine call and
\* leaves every field of the future (container id, docker host, image id,
\* flag) as it was, even if a container id is registered concurrently or later.
C20_NoWaitNoEffect ==
    /\ [][\A s \in Stoppers :
            (pc[s] = "entry" /\ pc'[s] # "entry" /\ ~future.requires_wait_to_stop)
                => /\ pc'[s] = "returned"
                   /\ future' = future
                   /\ calls' = calls
                   /\ lock' = None]_vars
    /\ [](\A s \in Stoppers :
            (/\ pc[s] = "returned"
             /\ stop_calls[s] = 1
             /\ ~entry_future[s].requires_wait_to_stop) => StopCalls(s) = <<>>)

\* The call returned without effect and the container was registered later.
C20_Witness ==
    \E s \in Stoppers :
        /\ pc[s] = "returned"
        /\ stop_calls[s] = 1
        /\ ~entry_future[s].requires_wait_to_stop
        /\ StopCalls(s) = <<>>
        /\ Registered(future)
        /\ future.image_id # None

\* The places of the teardown: from the read of the container id to the
\* clearing of the image id.
TeardownPoints == {"container", "kill_ret", "delete", "delete_ret", "unregister",
                   "image", "image_ret", "unused", "unused_ret", "clear"}

\* How many times a stop thread issued the call for that id.
IssuedFor(name, id) ==
    Cardinality({i \in DOMAIN calls :
                    /\ calls[i].by \in Stoppers
                    /\ calls[i].call = name
                    /\ calls[i].arg[1] = id})

\* C21: however two or more concurrent calls of stop_docker_container_future
\* on the same registered future interleave, kill_container is issued at most
\* once for the registered container id and delete_image at most once for the
\* recorded image id: the read of the id, the teardown calls and the clearing
\* of the id are one critical section.
C21_TeardownOnce ==
    /\ IssuedFor("kill_container", Cid) <= 1
    /\ IssuedFor("delete_image", "image") <= 1
    /\ \A s \in Stoppers : pc[s] \in TeardownPoints => lock = s

\* Two calls that both read requires_wait_to_stop true on the registered
\* future have returned: one kill, one delete_image.
C21_Witness ==
    /\ \A s \in Stoppers :
          /\ pc[s] = "returned"
          /\ stop_calls[s] = 1
          /\ Registered(entry_future[s])
    /\ IssuedFor("kill_container", Cid) = 1
    /\ IssuedFor("delete_image", "image") = 1

====
